---- MODULE Spec2Model ----
(***************************************************************************)
(* Chunk completeness and repair engine of zeroindex.                      *)
(*                                                                         *)
(* One chunk of the registry (a row of the Chunk table), the compressed    *)
(* chunk file its file_path names, the ChunkRepairLog rows, and the        *)
(* operations that write them: Chunk.analyze_missing_blocks,               *)
(* Chunk.repair_missing_blocks, validate_chunk_task, and the collectors    *)
(* (the collect_chunk_data command, process_chunk_task, backfill_chunks).  *)
(* process_chunk_task is also followed run by run through its Celery       *)
(* retries. The tools of src/apps/blocks are modelled beside them:         *)
(* BlockChunker (create_chunk, compress_chunk, save_chunk, verify_chunk,   *)
(* process_block_range) over its chunks_dir, and ChunkValidator            *)
(* (validate_block_sequence, validate_compression_integrity). JSON text is *)
(* a sequence of tokens that json.dumps writes and json.loads parses.      *)
(*                                                                         *)
(* A block record of the file is [number, by]: `by` is 0 for a block a     *)
(* collector wrote and the repair worker's id for a block a repair         *)
(* fetched, so that two records of one number can be told apart.           *)
(*                                                                         *)
(* Percentages are kept in hundredths of a percent (the registry column is *)
(* DecimalField(max_digits=5, decimal_places=2)): 10000 is 100.00.         *)
(***************************************************************************)
EXTENDS Integers, Sequences, FiniteSets, TLC

\* ------------------------------------------------------------------ bounds
StartBlock == 1
SpanLen == 6
EndBlock == StartBlock + SpanLen - 1
\* the largest number of fetches of one batch that fail, short of all of them
MaxFailed == 1

\* --------------------------------------------------------------- constants
\* models.py:266  missing_blocks[:5]
RepairBatchLimit == 5

\* two executions of repair_missing_blocks
Workers == {1, 2}
\* block numbers a file may hold: the range and one number on either side
Universe == (StartBlock - 1)..(EndBlock + 1)

VARIABLES
    db,        \* the Chunk row as persisted in the registry
    file,      \* the file at chunk.file_path
    inst,      \* inst[w]: worker w's in-memory Chunk instance (self)
    pc,        \* pc[w]: worker w's position in repair_missing_blocks
    loc,       \* loc[w]: the locals of worker w's repair_missing_blocks call
    log,       \* log[w]: the ChunkRepairLog row of worker w's latest attempt
    ev,        \* the step just taken (history)
    task,      \* the Celery request of process_chunk_task for the chunk
    chunks_dir, \* BlockChunker.chunks_dir: chunk files and their .meta sidecars
    chunker,   \* the locals of the BlockChunker call in progress
    validator  \* the argument and the TestResult of a ChunkValidator call

\* the state of the tools of src/apps/blocks
tools == <<chunks_dir, chunker, validator>>
vars == <<db, file, inst, pc, loc, log, ev, task, chunks_dir, chunker, validator>>

\* ------------------------------------------------------------- sequences
Min(a, b) == IF a < b THEN a ELSE b

\* list(range(a, b + 1))
RangeSeq(a, b) == [i \in 1..(IF b >= a THEN b - a + 1 ELSE 0) |-> a + i - 1]

Take(s, k) == SubSeq(s, 1, Min(k, Len(s)))

SeqToSet(s) == {s[i] : i \in DOMAIN s}

\* {int(block['number']) for block in blocks}
Numbers(blocks) == {blocks[i].number : i \in DOMAIN blocks}

\* the ascending sequence of a set of numbers
RECURSIVE SetToSortedSeq(_)
SetToSortedSeq(S) ==
    IF S = {} THEN <<>>
    ELSE LET m == CHOOSE x \in S : \A y \in S : x <= y
         IN <<m>> \o SetToSortedSeq(S \ {m})

IsAscending(s) == \A i \in 1..(Len(s) - 1) : s[i] < s[i + 1]

\* blocks fetched by `by` for the numbers of `nums`, in the order of nums
BlocksOf(nums, by) == [i \in DOMAIN nums |-> [number |-> nums[i], by |-> by]]

\* list.sort(key=lambda x: x['number']) is stable: a record goes after every
\* record of a smaller number and after the records of its own number that
\* preceded it
SortedIndex(blocks, i) ==
    1 + Cardinality({j \in DOMAIN blocks :
                        \/ blocks[j].number < blocks[i].number
                        \/ blocks[j].number = blocks[i].number /\ j < i})

SortByNumber(blocks) ==
    [k \in DOMAIN blocks |->
        blocks[CHOOSE i \in DOMAIN blocks : SortedIndex(blocks, i) = k]]

\* ------------------------------------------------------------ the file
AbsentFile == [state |-> "absent", blocks |-> <<>>, has_metadata |-> FALSE]
\* opened with gzip.open(path, 'wt') and not yet fully written, or the bytes
\* of two interleaved writers: gzip/json cannot read it
PartialFile == [state |-> "partial", blocks |-> <<>>, has_metadata |-> FALSE]
OkFile(blocks, meta) == [state |-> "ok", blocks |-> blocks, has_metadata |-> meta]

Readable(f) == f.state = "ok"

\* hashlib.sha256 of the file's bytes: distinct contents, distinct digests
Sha256(f) == <<"sha256", f.state, f.blocks, f.has_metadata>>
\* file_hash = '' (models.py:165, blank): no digest
NoHash == <<>>
\* os.path.getsize / Path.stat().st_size of the compressed file
SizeOf(f) == IF f.state = "ok" THEN 1 + Len(f.blocks) ELSE 0
\* size of the uncompressed JSON text
JsonSizeOf(f) == IF f.state = "ok" THEN 2 + 3 * Len(f.blocks) ELSE 0
\* uncompressed_size / file_size_bytes, kept as the pair it is the quotient of
RatioOf(f) == <<JsonSizeOf(f), SizeOf(f)>>
DefaultRatio == <<1, 1>>

\* (actual / expected) * 100, in hundredths of a percent
Pct(actual, expected) == (actual * 10000) \div expected
Hundred == 10000

\* ------------------------------------------------------- the Chunk row
\* models.py:157-169: the defaults of a new row
NewChunk ==
    [ status |-> "creating",
      completeness_percentage |-> 0,
      missing_blocks |-> <<>>,
      file_path |-> "",
      file_size_bytes |-> 0,
      compression_ratio |-> DefaultRatio,
      file_hash |-> NoHash,
      total_blocks |-> 0,
      start_block |-> StartBlock,
      end_block |-> EndBlock ]

ChunkPath == "chunk.json.gz"

\* models.py:351-359: the defaults of a new ChunkRepairLog row
NoLog ==
    [ exists |-> FALSE,
      blocks_attempted |-> 0,
      blocks_repaired |-> 0,
      missing_blocks_before |-> <<>>,
      missing_blocks_after |-> <<>>,
      completed |-> FALSE,
      error_message |-> "" ]

\* missing: the list analyze returned; fetched: the numbers passed to get_block;
\* new_blocks, merged: the fetched and the merged block lists; pre: the file as
\* loaded; raced: another writer held the file open while this one did
NoLocals ==
    [ missing |-> <<>>, fetched |-> <<>>, new_blocks |-> <<>>, merged |-> <<>>,
      pre |-> AbsentFile, raced |-> FALSE ]

Event(op) == [op |-> op, w |-> 0, ret |-> "-", log |-> NoLog, loc |-> NoLocals]
NoEvent == Event("init")

\* -------------------------------------------- Chunk.analyze_missing_blocks
\* the missing list: the numbers of range(start, end + 1) not in the file
MissingIn(blocks, start, end) ==
    SelectSeq(RangeSeq(start, end), LAMBDA n : n \notin Numbers(blocks))

\* what analyze_missing_blocks stores in completeness_percentage
AnalyzedPct(blocks, start, end) ==
    LET expected == end - start + 1
        actual == Cardinality(Numbers(blocks))
    IN IF expected > 0 THEN Pct(actual, expected) ELSE 0

\* analyze_missing_blocks on instance c with file f:
\* [missing: the list returned, inst: c afterwards, saved: whether c was saved]
Analyze(c, f) ==
    IF c.file_path = "" \/ ~Readable(f)
    THEN \* early return, or the except branch: [] and nothing stored
         [missing |-> <<>>, inst |-> c, saved |-> FALSE]
    ELSE LET m == MissingIn(f.blocks, c.start_block, c.end_block)
         IN [ missing |-> m,
              inst |-> [c EXCEPT !.missing_blocks = m,
                                 !.completeness_percentage =
                                     AnalyzedPct(f.blocks, c.start_block, c.end_block),
                                 !.total_blocks = Cardinality(Numbers(f.blocks))],
              saved |-> TRUE ]

\* a caller outside repair: load the row, analyze, (save)
AnalyzeChunk ==
    /\ \A w \in Workers : pc[w] = "idle"
    /\ LET r == Analyze(db, file)
       IN /\ db' = r.inst
          \* every path returns a list: the early return, the try body, the except
          /\ ev' = [Event("analyze") EXCEPT !.ret = "list", !.loc.missing = r.missing]
    /\ UNCHANGED <<file, inst, pc, loc, log>>
    /\ UNCHANGED <<task, tools>>

\* ---------------------------------------------------- validate_chunk_task
\* find_missing_blocks_in_range over range(start_block, end_block)
FindMissingBlocksInRangeExclusive(blocks, start, end) ==
    IF blocks = <<>> THEN RangeSeq(start, end - 1)
    ELSE SetToSortedSeq((start..(end - 1)) \ Numbers(blocks))

\* tasks.py:264-272 find_missing_blocks_in_range
FindMissingBlocksInRange(blocks, start, end) ==
    IF blocks = <<>> THEN RangeSeq(start, end)
    ELSE SetToSortedSeq((start..end) \ Numbers(blocks))

\* tasks.py:101-108: ((actual_blocks - len(missing_blocks)) / expected_blocks) * 100
\* with actual_blocks = len(blocks); expected_blocks is not zero
ValidatedPct(blocks, start, end) ==
    LET expected == end - start + 1
        counted == Len(blocks) - Len(FindMissingBlocksInRange(blocks, start, end))
    IN IF expected > 0
       THEN IF counted >= 0 THEN Pct(counted, expected) ELSE 0 - Pct(0 - counted, expected)
       ELSE IF counted >= 0 THEN 0 - Pct(counted, 0 - expected) ELSE Pct(0 - counted, 0 - expected)

\* tasks.py:77-128
ValidateChunkTask ==
    /\ \A w \in Workers : pc[w] = "idle"
    /\ IF db.file_path = "" \/ file.state = "absent"
       THEN \* 'File not found'
            /\ db' = [db EXCEPT !.status = "failed"]
            /\ ev' = [Event("validate") EXCEPT !.ret = "failed"]
       ELSE IF ~Readable(file) \/ db.end_block - db.start_block + 1 = 0
       THEN \* gzip/json raise, or ZeroDivisionError: the except branch, nothing saved
            /\ db' = db
            /\ ev' = [Event("validate") EXCEPT !.ret = "error"]
       ELSE LET missing_blocks ==
                    FindMissingBlocksInRange(file.blocks, db.start_block, db.end_block)
            IN /\ db' = [db EXCEPT
                           !.missing_blocks = missing_blocks,
                           !.total_blocks = Len(file.blocks),
                           !.completeness_percentage =
                               ValidatedPct(file.blocks, db.start_block, db.end_block),
                           !.status = IF missing_blocks = <<>> THEN "complete"
                                      ELSE "incomplete"]
               /\ ev' = [Event("validate") EXCEPT !.ret = "result",
                                                   !.loc.missing = missing_blocks]
    /\ UNCHANGED <<file, inst, pc, loc, log>>
    /\ UNCHANGED <<task, tools>>

\* ------------------------------- backfill_chunks validate_existing_chunks
\* backfill_chunks.py:234-243 Command.find_missing_blocks
FindMissingBlocks(blocks, start_block, end_block) ==
    IF blocks = <<>> THEN RangeSeq(start_block, end_block)
    ELSE LET block_numbers == Numbers(blocks)
             expected_numbers == start_block..end_block
         IN SetToSortedSeq(expected_numbers \ block_numbers)

\* backfill_chunks.py:175-232, for the day whose range is the chunk's
ValidateExistingChunks ==
    /\ \A w \in Workers : pc[w] = "idle"
    /\ IF db.file_path = "" \/ file.state = "absent"
       THEN \* 'Chunk file missing'
            /\ db' = db
            /\ ev' = [Event("validate_existing") EXCEPT !.ret = "missing file"]
       ELSE IF ~Readable(file)
       THEN \* 'Error reading chunk'
            /\ db' = db
            /\ ev' = [Event("validate_existing") EXCEPT !.ret = "error"]
       ELSE LET expected_blocks == db.end_block - db.start_block + 1
                missing_blocks == FindMissingBlocks(file.blocks, db.start_block, db.end_block)
            IN /\ db' = IF missing_blocks # <<>>
                        THEN [db EXCEPT
                                !.missing_blocks = missing_blocks,
                                !.completeness_percentage =
                                    Pct(expected_blocks - Len(missing_blocks), expected_blocks),
                                !.status = "incomplete"]
                        ELSE [db EXCEPT !.completeness_percentage = Hundred,
                                        !.status = "complete"]
               /\ ev' = [Event("validate_existing") EXCEPT !.ret = "result",
                                                            !.loc.missing = missing_blocks]
    /\ UNCHANGED <<file, inst, pc, loc, log>>
    /\ UNCHANGED <<task, tools>>

\* -------------------------------------------- Chunk.repair_missing_blocks
\* missing_blocks[:5]
Batch(missing) == Take(missing, RepairBatchLimit)

\* The call returns (or the process dies): the instance, the locals and the
\* handle on the log row are dropped; ev keeps what the call ended with.
Leave(w, op, ret, lg, lc) ==
    /\ inst' = [inst EXCEPT ![w] = NewChunk]
    /\ loc' = [loc EXCEPT ![w] = NoLocals]
    /\ log' = [log EXCEPT ![w] = NoLog]
    /\ pc' = [pc EXCEPT ![w] = "idle"]
    /\ ev' = [op |-> op, w |-> w, ret |-> ret, log |-> lg, loc |-> lc]

\* the except branch of repair_missing_blocks (models.py:335-340), and the
\* branch of a failed connection (models.py:252-257), which does the same
RepairExcept(w, msg, lc) ==
    /\ db' = [inst[w] EXCEPT !.status = "failed"]
    /\ Leave(w, "repair_return", "log", [log[w] EXCEPT !.error_message = msg], lc)

\* models.py:326-333: finalize the log, save, return it
RepairFinalize(w, self, repaired, lc) ==
    /\ db' = self
    /\ Leave(w, "repair_return", "log",
             [log[w] EXCEPT !.blocks_repaired = repaired,
                            !.missing_blocks_after = self.missing_blocks,
                            !.completed = TRUE],
             lc)

\* the log row repair_missing_blocks creates (models.py:238-242)
CreateLog(missing) ==
    [NoLog EXCEPT !.exists = TRUE,
                  !.blocks_attempted = Len(missing),
                  !.missing_blocks_before = missing]

\* RepairBegin without the early return of models.py:230-231
RepairBeginNoEarlyReturn(w) ==
    /\ pc[w] = "idle"
    /\ LET r == Analyze(db, file)
       IN /\ inst' = [inst EXCEPT ![w] = [r.inst EXCEPT !.status = "repairing"]]
          /\ db' = inst'[w]
          /\ log' = [log EXCEPT ![w] = CreateLog(r.missing)]
          /\ loc' = [loc EXCEPT ![w] = [NoLocals EXCEPT !.missing = r.missing]]
          /\ pc' = [pc EXCEPT ![w] = "connect"]
          /\ ev' = [op |-> "repair_begin", w |-> w, ret |-> "-",
                    log |-> log'[w], loc |-> loc'[w]]
    /\ UNCHANGED file
    /\ UNCHANGED <<task, tools>>

\* models.py:225-242: load, analyze, return None or take the 'repairing'
\* status and create the log
RepairBegin(w) ==
    /\ pc[w] = "idle"
    /\ LET r == Analyze(db, file)
       IN IF r.missing = <<>>
          THEN /\ db' = r.inst
               /\ Leave(w, "repair_return", "None", NoLog, NoLocals)
          ELSE /\ inst' = [inst EXCEPT ![w] = [r.inst EXCEPT !.status = "repairing"]]
               /\ db' = inst'[w]
               /\ log' = [log EXCEPT ![w] = CreateLog(r.missing)]
               /\ loc' = [loc EXCEPT ![w] = [NoLocals EXCEPT !.missing = r.missing]]
               /\ pc' = [pc EXCEPT ![w] = "connect"]
               /\ ev' = [op |-> "repair_begin", w |-> w, ret |-> "-",
                         log |-> log'[w], loc |-> loc'[w]]
    /\ UNCHANGED file
    /\ UNCHANGED <<task, tools>>

\* RepairNotConnected without `self.status = 'failed'` (models.py:255)
RepairNotConnectedKeepsStatus(w) ==
    /\ pc[w] = "connect"
    /\ db' = inst[w]
    /\ Leave(w, "repair_return", "log",
             [log[w] EXCEPT !.error_message = "Cannot connect to RPC"], loc[w])
    /\ UNCHANGED file
    /\ UNCHANGED <<task, tools>>

\* models.py:252-257: w3.is_connected() is false
RepairNotConnected(w) ==
    /\ pc[w] = "connect"
    /\ RepairExcept(w, "Cannot connect to RPC", loc[w])
    /\ UNCHANGED file
    /\ UNCHANGED <<task, tools>>

\* models.py:259-261: gzip.open/json.load of the chunk file raises
RepairLoadFails(w) ==
    /\ pc[w] = "connect"
    /\ ~Readable(file)
    /\ RepairExcept(w, "cannot read chunk file", loc[w])
    /\ UNCHANGED file
    /\ UNCHANGED <<task, tools>>

\* the sets of numbers of a batch whose get_block may succeed together: at
\* most MaxFailed fetches of the batch fail, or all of them do
FetchOutcomes(batch) ==
    {ok \in SUBSET SeqToSet(batch) :
        \/ Cardinality(SeqToSet(batch) \ ok) <= MaxFailed
        \/ ok = {}}

\* models.py:259-312: load the file, fetch the batch (ok: the numbers whose
\* fetch succeeds), merge in memory
RepairFetchOk(w, ok) ==
    /\ pc[w] = "connect"
    /\ Readable(file)
    /\ LET batch == Batch(loc[w].missing)
           new_blocks == BlocksOf(SelectSeq(batch, LAMBDA n : n \in ok), w)
           merged == SortByNumber(file.blocks \o new_blocks)
           lc == [loc[w] EXCEPT !.fetched = batch, !.new_blocks = new_blocks,
                                !.merged = merged, !.pre = file]
       IN IF new_blocks = <<>>
          THEN RepairFinalize(w, inst[w], 0, lc)
          ELSE IF ~file.has_metadata
          THEN \* chunk_data['metadata'] raises KeyError
               RepairExcept(w, "KeyError: 'metadata'", lc)
          ELSE /\ loc' = [loc EXCEPT ![w] = lc]
               /\ pc' = [pc EXCEPT ![w] = "write"]
               /\ ev' = [op |-> "repair_fetched", w |-> w, ret |-> "-",
                         log |-> log[w], loc |-> lc]
               /\ UNCHANGED <<db, inst, log>>
    /\ UNCHANGED file
    /\ UNCHANGED <<task, tools>>

RepairFetch(w) ==
    \E ok \in FetchOutcomes(Batch(loc[w].missing)) : RepairFetchOk(w, ok)

\* models.py:315: gzip.open(self.file_path, 'wt') truncates the file
RepairOpen(w) ==
    /\ pc[w] = "write"
    /\ file' = PartialFile
    /\ loc' = [v \in Workers |->
                 IF v = w THEN [loc[v] EXCEPT !.raced = \E u \in Workers : u # w /\ pc[u] = "dump"]
                 ELSE IF pc[v] = "dump" THEN [loc[v] EXCEPT !.raced = TRUE]
                 ELSE loc[v]]
    /\ pc' = [pc EXCEPT ![w] = "dump"]
    /\ ev' = [op |-> "repair_open", w |-> w, ret |-> "-", log |-> log[w], loc |-> loc'[w]]
    /\ UNCHANGED <<db, inst, log>>
    /\ UNCHANGED <<task, tools>>

\* models.py:299: blocks_repaired counts the appended new blocks
Repaired(w) == Len(loc[w].new_blocks)

\* models.py:321-324
StatusAfterWrite(c) ==
    IF c.completeness_percentage = Hundred THEN "complete" ELSE "incomplete"

\* RepairDump when the merge assigns the fetched blocks instead of extending
\* the loaded list with them (models.py:307)
RepairDumpOnlyNew(w) ==
    /\ pc[w] = "dump"
    /\ file' = OkFile(loc[w].new_blocks, TRUE)
    /\ LET r == Analyze(inst[w], file')
           self == [r.inst EXCEPT !.status = StatusAfterWrite(r.inst)]
       IN RepairFinalize(w, self, Repaired(w), loc[w])
    /\ UNCHANGED <<task, tools>>

\* models.py:316-333: json.dump completes, then analyze, status, log, save.
\* Two writers that held the file open at once leave either this writer's
\* bytes or bytes nothing can read.
RepairDump(w) ==
    /\ pc[w] = "dump"
    /\ \E f \in {OkFile(loc[w].merged, TRUE)} \cup (IF loc[w].raced THEN {PartialFile} ELSE {}) :
         /\ file' = f
         /\ LET r == Analyze(inst[w], f)
                self == [r.inst EXCEPT !.status = StatusAfterWrite(r.inst)]
            IN RepairFinalize(w, self, Repaired(w), loc[w])
    /\ UNCHANGED <<task, tools>>

\* models.py:315-316, 335-340: the write raises (disk full, I/O error) after
\* the file was truncated
RepairDumpFails(w) ==
    /\ pc[w] = "dump"
    /\ RepairExcept(w, "write error", loc[w])
    /\ UNCHANGED file
    /\ UNCHANGED <<task, tools>>

\* the process is killed inside repair_missing_blocks
RepairCrash(w) ==
    /\ pc[w] # "idle"
    /\ Leave(w, "repair_crash", "-", log[w], loc[w])
    /\ UNCHANGED <<db, file>>
    /\ UNCHANGED <<task, tools>>

\* ------------------------------------------------------------ collectors
\* The collectors run while no repair is in flight. `ok` is the set of block
\* numbers whose get_block succeeds. `file` is the file the row's file_path
\* names after the step: the collect_chunk_data command writes to a path of
\* its own and points file_path at it.
Quiet == \A w \in Workers : pc[w] = "idle"

\* the blocks a collector's loop over range(start, end + 1) appends
Collected(c, ok) ==
    BlocksOf(SelectSeq(RangeSeq(c.start_block, c.end_block), LAMBDA n : n \in ok), 0)

\* collect_chunk_data.py:46-150 (handle, past the connection check)
CollectCommandRow(c, ok) ==
    LET blocks == Collected(c, ok)
        total_blocks == c.end_block - c.start_block + 1
        processed == Len(blocks)
        f == OkFile(blocks, TRUE)
    IN [c EXCEPT !.file_path = ChunkPath,
                 !.total_blocks = processed,
                 !.completeness_percentage = Pct(processed, total_blocks),
                 !.status = IF processed = total_blocks THEN "complete" ELSE "incomplete",
                 !.file_size_bytes = SizeOf(f),
                 !.compression_ratio = IF SizeOf(f) > 0 THEN RatioOf(f) ELSE DefaultRatio]

CollectChunkDataCommand ==
    /\ Quiet
    /\ \E ok \in FetchOutcomes(RangeSeq(db.start_block, db.end_block)) :
         /\ file' = OkFile(Collected(db, ok), TRUE)
         /\ db' = CollectCommandRow(db, ok)
    /\ ev' = Event("collect_command")
    /\ UNCHANGED <<inst, pc, loc, log>>
    /\ UNCHANGED <<task, tools>>

\* tasks.py:32-47 and save_chunk_data (tasks.py:234-261): one run of
\* process_chunk_task with a connection
ProcessChunkRow(c, ok) ==
    LET blocks == Collected(c, ok)
        expected_blocks == c.end_block - c.start_block + 1
        f == OkFile(blocks, FALSE)
    IN [c EXCEPT !.file_path = IF c.file_path = "" THEN ChunkPath ELSE c.file_path,
                 !.file_size_bytes = SizeOf(f),
                 !.total_blocks = Len(blocks),
                 !.completeness_percentage = Pct(Len(blocks), expected_blocks),
                 !.status = IF Len(blocks) = expected_blocks THEN "complete" ELSE "incomplete"]

ProcessChunkTask ==
    /\ Quiet
    /\ \E ok \in FetchOutcomes(RangeSeq(db.start_block, db.end_block)) :
         /\ file' = OkFile(Collected(db, ok), FALSE)
         /\ db' = ProcessChunkRow(db, ok)
    /\ ev' = Event("process_chunk_task")
    /\ UNCHANGED <<inst, pc, loc, log>>
    /\ UNCHANGED <<task, tools>>

\* tasks.py:28-30, 59-74: get_web3_connection returns None; the except branch
ProcessChunkTaskNoConnection ==
    /\ Quiet
    /\ db' = [db EXCEPT !.status = "failed"]
    /\ ev' = Event("process_chunk_task_failed")
    /\ UNCHANGED <<file, inst, pc, loc, log>>
    /\ UNCHANGED <<task, tools>>

\* backfill_chunks.py:305-335 create_or_update_chunk
CreateOrUpdateChunk(c) ==
    [c EXCEPT !.status = "creating",
              !.file_path = IF c.file_path = "" THEN ChunkPath ELSE c.file_path]

\* backfill_chunks.py:410-445 save_chunk_data(partial=False)
BackfillSaveRow(c, blocks) ==
    LET expected_blocks == c.end_block - c.start_block + 1
        f == OkFile(blocks, FALSE)
    IN [c EXCEPT !.total_blocks = Len(blocks),
                 !.file_size_bytes = SizeOf(f),
                 !.status = "complete",
                 !.completeness_percentage = Pct(Len(blocks), expected_blocks)]

\* backfill_chunks.py:261-291: one day of process_chunk_backfill:
\* create_or_update_chunk, collect_chunk_data, analyze_missing_blocks
BackfillChunk ==
    /\ Quiet
    /\ \E force \in BOOLEAN, ok \in FetchOutcomes(RangeSeq(db.start_block, db.end_block)) :
         IF ~force /\ db.completeness_percentage = Hundred
         THEN \* "Complete chunk exists, skipping"
              /\ UNCHANGED <<db, file>>
              /\ ev' = Event("backfill_skip")
         ELSE LET c == CreateOrUpdateChunk(db)
                  blocks == Collected(c, ok)
                  f == OkFile(blocks, FALSE)
              IN /\ file' = f
                 /\ db' = Analyze(BackfillSaveRow(c, blocks), f).inst
                 /\ ev' = Event("backfill")
    /\ UNCHANGED <<inst, pc, loc, log>>
    /\ UNCHANGED <<task, tools>>

\* ------------------------------------- process_chunk_task as a Celery task
\* tasks.py:18  @shared_task(bind=True, max_retries=3)
MaxRetries == 3
\* tasks.py:72  countdown=60 * (2 ** self.request.retries)
RetryCountdownBase == 60

\* the request: state is Celery's (PENDING, RETRY, SUCCESS, FAILURE) or
\* "none" before the task is enqueued; retries is self.request.retries;
\* runs counts the executions of the body; countdown is the delay of the
\* retry scheduled last; collected is the set of numbers the last run fetched
NoTask ==
    [ state |-> "none", retries |-> 0, runs |-> 0, countdown |-> 0,
      start_block |-> 0, end_block |-> 0, collected |-> {} ]

\* the end_block arguments a caller passes: the chunk's, a part of its range,
\* or one that makes the range empty
TaskEndBlocks == {db.end_block, db.end_block - 1, db.start_block - 1}

\* process_chunk_task.delay(chunk_id, start_block, end_block)
ProcessChunkTaskDelay ==
    /\ Quiet
    /\ task.state = "none"
    /\ \E end_block \in TaskEndBlocks :
         task' = [NoTask EXCEPT !.state = "PENDING",
                                !.start_block = db.start_block,
                                !.end_block = end_block]
    /\ ev' = Event("task_delay")
    /\ UNCHANGED <<db, file, inst, pc, loc, log, tools>>

TaskWaiting == task.state \in {"PENDING", "RETRY"}

\* the guard of tasks.py:71 with <= for <
ShouldRetryInclusive(retries) == retries <= MaxRetries

\* tasks.py:71  if self.request.retries < self.max_retries
ShouldRetry(retries) == retries < MaxRetries

\* tasks.py:59-74: the except branch. The row is loaded again, marked
\* failed and saved; then self.retry(...) or the exception itself is raised.
ProcessChunkTaskExcept(c, collected) ==
    /\ db' = [c EXCEPT !.status = "failed"]
    /\ IF ShouldRetry(task.retries)
       THEN /\ task' = [task EXCEPT !.state = "RETRY",
                                    !.runs = @ + 1,
                                    !.countdown = RetryCountdownBase * (2 ^ task.retries),
                                    !.retries = @ + 1,
                                    !.collected = collected]
            /\ ev' = [Event("task_run") EXCEPT !.ret = "retry"]
       ELSE /\ task' = [task EXCEPT !.state = "FAILURE", !.runs = @ + 1,
                                    !.collected = collected]
            /\ ev' = [Event("task_run") EXCEPT !.ret = "raise"]

\* save_chunk_data (tasks.py:249-253): the row with its file_path ensured
WithFilePath(c) ==
    [c EXCEPT !.file_path = IF c.file_path = "" THEN ChunkPath ELSE c.file_path]

\* tasks.py:23-30: get_web3_connection returns None
ProcessChunkTaskRunNoConnection ==
    /\ Quiet
    /\ TaskWaiting
    /\ ProcessChunkTaskExcept(db, {})
    /\ UNCHANGED <<file, inst, pc, loc, log, tools>>

\* tasks.py:33-38, 258-259: the blocks are collected, the write of the
\* chunk file raises after gzip.open truncated it
ProcessChunkTaskRunWriteFails ==
    /\ Quiet
    /\ TaskWaiting
    /\ \E ok \in FetchOutcomes(RangeSeq(task.start_block, task.end_block)) :
         /\ file' = PartialFile
         /\ ProcessChunkTaskExcept(WithFilePath(db), ok)
    /\ UNCHANGED <<inst, pc, loc, log, tools>>

\* tasks.py:23-57: a run with a connection whose file write succeeds: the
\* division of line 44 raises when the range of the arguments is empty
ProcessChunkTaskRun ==
    /\ Quiet
    /\ TaskWaiting
    /\ \E ok \in FetchOutcomes(RangeSeq(task.start_block, task.end_block)) :
         LET blocks == BlocksOf(SelectSeq(RangeSeq(task.start_block, task.end_block),
                                          LAMBDA n : n \in ok), 0)
             expected_blocks == task.end_block - task.start_block + 1
             f == OkFile(blocks, FALSE)
         IN /\ file' = f
            /\ IF expected_blocks = 0
               THEN ProcessChunkTaskExcept(WithFilePath(db), ok)
               ELSE /\ db' = [WithFilePath(db) EXCEPT
                                !.file_size_bytes = SizeOf(f),
                                !.total_blocks = Len(blocks),
                                !.completeness_percentage = Pct(Len(blocks), expected_blocks),
                                !.status = IF Len(blocks) = expected_blocks
                                           THEN "complete" ELSE "incomplete"]
                    /\ task' = [task EXCEPT !.state = "SUCCESS", !.runs = @ + 1,
                                            !.collected = ok]
                    /\ ev' = [Event("task_run") EXCEPT !.ret = "result"]
    /\ UNCHANGED <<inst, pc, loc, log, tools>>

\* ------------------------------------------ json and gzip (src/apps/blocks)
\* A Python value that json.dumps accepts, tagged by its type. A dict is the
\* sequence of its <<key, value>> items in insertion order; the keys of a
\* chunk are strings.
JInt(n) == <<"int", n>>
JStr(s) == <<"str", s>>
JNull == <<"null">>
\* a float, kept as the quotient it was computed from
JFloat(num, den) == <<"float", <<num, den>>>>
JList(elems) == <<"list", elems>>
JDict(items) == <<"dict", items>>

\* d[key], for a key the dict has
Item(d, key) == d[2][CHOOSE i \in DOMAIN d[2] : d[2][i][1] = key][2]
HasKey(d, key) == \E i \in DOMAIN d[2] : d[2][i][1] = key
\* d.get(key, default)
Get(d, key, default) == IF HasKey(d, key) THEN Item(d, key) ELSE default

\* the decimal digits of a natural number, most significant first
RECURSIVE Digits(_)
Digits(n) == IF n < 10 THEN <<n>> ELSE Append(Digits(n \div 10), n % 10)

RECURSIVE FromDigits(_)
FromDigits(ds) ==
    IF Len(ds) = 1 THEN ds[1]
    ELSE 10 * FromDigits(SubSeq(ds, 1, Len(ds) - 1)) + ds[Len(ds)]

\* the lexical tokens of JSON text
Punct(c) == <<"punct", c>>
NumberToken(n) == IF n < 0 THEN <<"number", "-", Digits(0 - n)>> ELSE <<"number", "", Digits(n)>>
StringToken(str) == <<"string", str>>
NullToken == <<"literal", "null">>
IsPunct(t, c) == t[1] = "punct" /\ t[2] = c

\* json.dumps(value, separators=(',', ':')): the text, token by token
RECURSIVE JsonDumps(_), DumpsElems(_, _), DumpsItems(_, _)
JsonDumps(v) ==
    CASE v[1] = "int" -> <<NumberToken(v[2])>>
      [] v[1] = "float" -> <<<<"float", v[2]>>>>
      [] v[1] = "str" -> <<StringToken(v[2])>>
      [] v[1] = "null" -> <<NullToken>>
      [] v[1] = "list" -> <<Punct("[")>> \o DumpsElems(v[2], 1) \o <<Punct("]")>>
      [] v[1] = "dict" -> <<Punct("{")>> \o DumpsItems(v[2], 1) \o <<Punct("}")>>

DumpsElems(elems, i) ==
    IF i > Len(elems) THEN <<>>
    ELSE (IF i > 1 THEN <<Punct(",")>> ELSE <<>>) \o JsonDumps(elems[i])
         \o DumpsElems(elems, i + 1)

DumpsItems(items, i) ==
    IF i > Len(items) THEN <<>>
    ELSE (IF i > 1 THEN <<Punct(",")>> ELSE <<>>)
         \o <<StringToken(items[i][1]), Punct(":")>> \o JsonDumps(items[i][2])
         \o DumpsItems(items, i + 1)

\* json.loads(text): [v |-> the value that starts at token i, i |-> the
\* index after it]
RECURSIVE ParseValue(_, _), ParseElems(_, _, _), ParseItems(_, _, _)
ParseValue(toks, i) ==
    LET t == toks[i]
    IN CASE t[1] = "number" ->
              [v |-> JInt(IF t[2] = "-" THEN 0 - FromDigits(t[3]) ELSE FromDigits(t[3])),
               i |-> i + 1]
         [] t[1] = "float" -> [v |-> JFloat(t[2][1], t[2][2]), i |-> i + 1]
         [] t[1] = "string" -> [v |-> JStr(t[2]), i |-> i + 1]
         [] t[1] = "literal" -> [v |-> JNull, i |-> i + 1]
         [] IsPunct(t, "[") -> ParseElems(toks, i + 1, <<>>)
         [] IsPunct(t, "{") -> ParseItems(toks, i + 1, <<>>)

ParseElems(toks, i, acc) ==
    IF IsPunct(toks[i], "]") THEN [v |-> JList(acc), i |-> i + 1]
    ELSE IF IsPunct(toks[i], ",") THEN ParseElems(toks, i + 1, acc)
    ELSE LET r == ParseValue(toks, i) IN ParseElems(toks, r.i, Append(acc, r.v))

ParseItems(toks, i, acc) ==
    IF IsPunct(toks[i], "}") THEN [v |-> JDict(acc), i |-> i + 1]
    ELSE IF IsPunct(toks[i], ",") THEN ParseItems(toks, i + 1, acc)
    ELSE LET r == ParseValue(toks, i + 2)
         IN ParseItems(toks, r.i, Append(acc, <<toks[i][2], r.v>>))

JsonLoads(toks) == ParseValue(toks, 1).v

\* gzip: a header that carries the time of compression, and the text packed
\* two tokens to a word
Deflate(text) ==
    [k \in 1..((Len(text) + 1) \div 2) |->
        IF 2 * k <= Len(text) THEN <<text[2 * k - 1], text[2 * k]>>
        ELSE <<text[2 * k - 1]>>]

Inflate(words) ==
    IF words = <<>> THEN <<>>
    ELSE [j \in 1..(2 * (Len(words) - 1) + Len(words[Len(words)])) |->
            words[(j + 1) \div 2][((j + 1) % 2) + 1]]

\* gzip.compress(data, compresslevel=9) at time mtime
GzipCompress(data, mtime) == [magic |-> "gzip", mtime |-> mtime, deflated |-> Deflate(data)]
\* gzip.decompress(data)
GzipDecompress(data) == Inflate(data.deflated)
\* len() of the text and of the compressed bytes
TextLen(text) == Len(text)
GzipLen(data) == 1 + Len(data.deflated)

\* hashlib.sha256(data).hexdigest(): distinct bytes, distinct digests
Sha256Hex(data) == <<"sha256", data>>

\* ------------------------------------------------------------ BlockChunker
\* block_chunker.py:27
BlocksPerChunk == 50
\* the number of calls the clock (datetime.utcnow, the gzip header) tells apart
MaxClock == 2
\* how far below start_block the loop of process_block_range is followed
MaxUnderrun == 2

\* the chain: block n as get_block_with_traces returns it (block_chunker.py:52-65)
ChainTimestamp(n) == 12 * n
ChainBlock(n) ==
    JDict(<< <<"number", JInt(n)>>, <<"timestamp", JInt(ChainTimestamp(n))>>,
             <<"gasUsed", JInt(n)>>, <<"transactions", JList(<<>>)>> >>)

\* block_chunker.py:139-145: the blocks whose fetch succeeds, in range order
FetchedBlocks(start_block, end_block, ok) ==
    LET nums == SelectSeq(RangeSeq(start_block, end_block), LAMBDA n : n \in ok)
    IN [i \in DOMAIN nums |-> ChainBlock(nums[i])]

\* sum(b['gasUsed'] for b in blocks)
RECURSIVE SumGasUsed(_)
SumGasUsed(blocks) ==
    IF blocks = <<>> THEN 0 ELSE Item(Head(blocks), "gasUsed")[2] + SumGasUsed(Tail(blocks))

\* block_chunker.py:129-159, for a non-empty list of fetched blocks
CreateChunk(start_block, end_block, ok, now) ==
    LET blocks == FetchedBlocks(start_block, end_block, ok)
    IN JDict(<< <<"version", JStr("1.0")>>, <<"chain", JStr("ethereum")>>,
                <<"start_block", JInt(start_block)>>, <<"end_block", JInt(end_block)>>,
                <<"created_at", JStr(<<"utc", now>>)>>,
                <<"blocks", JList(blocks)>>,
                <<"metadata",
                  JDict(<< <<"block_count", JInt(Len(blocks))>>,
                           <<"start_timestamp", Item(blocks[1], "timestamp")>>,
                           <<"end_timestamp", Item(blocks[Len(blocks)], "timestamp")>>,
                           <<"total_transactions", JInt(0)>>,
                           <<"total_gas_used", JInt(SumGasUsed(blocks))>> >>)>> >>)

\* compress_chunk with the digest taken of the JSON text
CompressChunkHashesJson(chunk_data, now) ==
    LET json_bytes == JsonDumps(chunk_data)
        compressed == GzipCompress(json_bytes, now)
    IN [ compressed |-> compressed,
         metadata |->
           JDict(<< <<"original_size", JInt(TextLen(json_bytes))>>,
                    <<"compressed_size", JInt(GzipLen(compressed))>>,
                    <<"compression_ratio", JFloat(TextLen(json_bytes), GzipLen(compressed))>>,
                    <<"sha256", JStr(Sha256Hex(json_bytes))>>,
                    <<"blocks", JStr(<<Item(chunk_data, "start_block")[2], "-",
                                       Item(chunk_data, "end_block")[2]>>)>> >>) ]

\* block_chunker.py:161-181
CompressChunk(chunk_data, now) ==
    LET json_bytes == JsonDumps(chunk_data)
        compressed == GzipCompress(json_bytes, now)
    IN [ compressed |-> compressed,
         metadata |->
           JDict(<< <<"original_size", JInt(TextLen(json_bytes))>>,
                    <<"compressed_size", JInt(GzipLen(compressed))>>,
                    <<"compression_ratio", JFloat(TextLen(json_bytes), GzipLen(compressed))>>,
                    <<"sha256", JStr(Sha256Hex(compressed))>>,
                    <<"blocks", JStr(<<Item(chunk_data, "start_block")[2], "-",
                                       Item(chunk_data, "end_block")[2]>>)>> >>) ]

\* block_chunker.py:188-192
NoFilename == <<>>
Filename(chunk_data) ==
    <<"eth_blocks", Item(chunk_data, "start_block")[2], Item(chunk_data, "end_block")[2],
      Item(Item(chunk_data, "blocks")[2][1], "timestamp")[2], ".json.gz">>

\* chunks_dir: the chunk files and, under the same name plus '.meta', the
\* sidecars. A chunk file opened with 'wb' and not yet written holds no gzip
\* stream; a sidecar opened with 'w' and not yet written holds no JSON.
EmptyDir == [chunk |-> <<>>, meta |-> <<>>]
TruncatedBytes == [magic |-> "", mtime |-> 0, deflated |-> <<>>]
TruncatedText == <<>>
Put(f, k, v) == [x \in DOMAIN f \cup {k} |-> IF x = k THEN v ELSE f[x]]

NoChunker ==
    [ pc |-> "idle", caller |-> "", now |-> 0, crashed |-> FALSE,
      start_block |-> 0, end_block |-> 0, chunk_size |-> 0,
      current |-> 0, chunk_end |-> 0,
      calls |-> <<>>,          \* the <<start, end>> create_chunk was called with
      saved_chunks |-> <<>>,
      chunk_data |-> JNull, filename |-> NoFilename,
      compressed |-> TruncatedBytes, metadata |-> JNull,
      returned |-> NoFilename  \* the filename save_chunk returned last
    ]

\* block_chunker.py:217-222
ProcessBlockRange(start_block, end_block, chunk_size) ==
    /\ chunker.pc = "idle"
    /\ chunker.now < MaxClock
    /\ chunker' = [NoChunker EXCEPT
                     !.pc = "loop", !.caller = "process_block_range",
                     !.now = chunker.now + 1,
                     !.start_block = start_block, !.end_block = end_block,
                     !.chunk_size = IF chunk_size = 0 THEN BlocksPerChunk ELSE chunk_size,
                     !.current = start_block]
    /\ UNCHANGED <<db, file, inst, pc, loc, log, ev, task, chunks_dir, validator>>

\* block_chunker.py:223-228, 232-235: one pass of the loop up to save_chunk;
\* create_chunk raises ValueError when no block was fetched
ProcessBlockRangeCreate ==
    /\ chunker.pc = "loop"
    /\ chunker.current <= chunker.end_block
    /\ chunker.current >= chunker.start_block - MaxUnderrun
    /\ LET chunk_end == Min(chunker.current + chunker.chunk_size - 1, chunker.end_block)
           called == [chunker EXCEPT !.chunk_end = chunk_end,
                                     !.calls = Append(@, <<chunker.current, chunk_end>>),
                                     !.returned = NoFilename]
       IN \E ok \in FetchOutcomes(RangeSeq(chunker.current, chunk_end)) :
            IF FetchedBlocks(chunker.current, chunk_end, ok) = <<>>
            THEN chunker' = [called EXCEPT !.current = chunk_end + 1]
            ELSE chunker' = [called EXCEPT
                               !.pc = "save",
                               !.chunk_data = CreateChunk(chunker.current, chunk_end, ok,
                                                          chunker.now)]
    /\ UNCHANGED <<db, file, inst, pc, loc, log, ev, task, chunks_dir, validator>>

\* block_chunker.py:223, 237
ProcessBlockRangeReturn ==
    /\ chunker.pc = "loop"
    /\ chunker.current > chunker.end_block
    /\ chunker' = [chunker EXCEPT !.pc = "idle"]
    /\ UNCHANGED <<db, file, inst, pc, loc, log, ev, task, chunks_dir, validator>>

\* the end of the range create_real_chunk.py asks for
RealChunkEnd == StartBlock + 1

\* create_real_chunk.py:46-54: create_chunk, then save_chunk
CreateRealChunk ==
    /\ chunker.pc = "idle"
    /\ chunker.now < MaxClock
    /\ LET called == [NoChunker EXCEPT
                        !.caller = "create_real_chunk", !.now = chunker.now + 1,
                        !.start_block = StartBlock, !.end_block = RealChunkEnd,
                        !.current = StartBlock, !.chunk_end = RealChunkEnd,
                        !.calls = <<<<StartBlock, RealChunkEnd>>>>]
       IN \E ok \in FetchOutcomes(RangeSeq(StartBlock, RealChunkEnd)) :
            IF FetchedBlocks(StartBlock, RealChunkEnd, ok) = <<>>
            THEN chunker' = called
            ELSE chunker' = [called EXCEPT
                               !.pc = "save",
                               !.chunk_data = CreateChunk(StartBlock, RealChunkEnd, ok,
                                                          called.now)]
    /\ UNCHANGED <<db, file, inst, pc, loc, log, ev, task, chunks_dir, validator>>

\* block_chunker.py:188-198: the name, compress_chunk, open(filepath, 'wb')
SaveChunkOpen ==
    /\ chunker.pc = "save"
    /\ LET filename == Filename(chunker.chunk_data)
           c == CompressChunk(chunker.chunk_data, chunker.now)
       IN /\ chunker' = [chunker EXCEPT !.pc = "write", !.filename = filename,
                                        !.compressed = c.compressed,
                                        !.metadata = c.metadata]
          /\ chunks_dir' = [chunks_dir EXCEPT !.chunk = Put(@, filename, TruncatedBytes)]
    /\ UNCHANGED <<db, file, inst, pc, loc, log, ev, task, validator>>

\* block_chunker.py:199: f.write(compressed), and the file is closed
SaveChunkWrite ==
    /\ chunker.pc = "write"
    /\ chunks_dir' = [chunks_dir EXCEPT !.chunk = Put(@, chunker.filename, chunker.compressed)]
    /\ chunker' = [chunker EXCEPT !.pc = "meta"]
    /\ UNCHANGED <<db, file, inst, pc, loc, log, ev, task, validator>>

\* block_chunker.py:202-203: open(meta_file, 'w')
SaveMetaOpen ==
    /\ chunker.pc = "meta"
    /\ chunks_dir' = [chunks_dir EXCEPT !.meta = Put(@, chunker.filename, TruncatedText)]
    /\ chunker' = [chunker EXCEPT !.pc = "meta_write"]
    /\ UNCHANGED <<db, file, inst, pc, loc, log, ev, task, validator>>

\* the caller after save_chunk returned or raised: process_block_range goes
\* on with the next range (block_chunker.py:230-235), create_real_chunk ends
AfterSave(c, saved) ==
    IF c.caller = "process_block_range"
    THEN [c EXCEPT !.pc = "loop",
                   !.saved_chunks = IF saved THEN Append(@, c.filename) ELSE @,
                   !.current = c.chunk_end + 1,
                   !.returned = IF saved THEN c.filename ELSE NoFilename]
    ELSE [c EXCEPT !.pc = "idle",
                   !.saved_chunks = IF saved THEN Append(@, c.filename) ELSE @,
                   !.returned = IF saved THEN c.filename ELSE NoFilename]

\* block_chunker.py:204-209: json.dump(metadata, f), return filename
SaveMetaWrite ==
    /\ chunker.pc = "meta_write"
    /\ chunks_dir' = [chunks_dir EXCEPT
                        !.meta = Put(@, chunker.filename, JsonDumps(chunker.metadata))]
    /\ chunker' = AfterSave(chunker, TRUE)
    /\ UNCHANGED <<db, file, inst, pc, loc, log, ev, task, validator>>

\* a write of save_chunk raises (disk full, I/O error) with the file open
SaveChunkRaises ==
    /\ chunker.pc \in {"write", "meta_write"}
    /\ chunker' = AfterSave(chunker, FALSE)
    /\ UNCHANGED <<db, file, inst, pc, loc, log, ev, task, chunks_dir, validator>>

\* the process is killed inside a BlockChunker call
ChunkerCrash ==
    /\ chunker.pc # "idle"
    /\ chunker' = [chunker EXCEPT !.pc = "idle", !.crashed = TRUE]
    /\ UNCHANGED <<db, file, inst, pc, loc, log, ev, task, chunks_dir, validator>>

\* verify_chunk that only looks for the two files
VerifyChunkExistsOnly(dir, filename) ==
    IF filename \notin DOMAIN dir.chunk \/ filename \notin DOMAIN dir.meta THEN "False"
    ELSE IF dir.meta[filename] = TruncatedText THEN "raise"
    ELSE "True"

\* block_chunker.py:268-287: "True", "False", or "raise" when json.load of
\* the sidecar raises
VerifyChunk(dir, filename) ==
    IF filename \notin DOMAIN dir.chunk \/ filename \notin DOMAIN dir.meta THEN "False"
    ELSE IF dir.meta[filename] = TruncatedText THEN "raise"
    ELSE LET metadata == JsonLoads(dir.meta[filename])
             calculated_hash == Sha256Hex(dir.chunk[filename])
         IN IF calculated_hash = Item(metadata, "sha256")[2] THEN "True" ELSE "False"

\* test_chunks.py:303-350: the result, or "raise" when the chunk file cannot
\* be opened or json.load of the sidecar raises
ValidateCompressionIntegrity(dir, filename) ==
    IF filename \notin DOMAIN dir.chunk THEN "raise"
    ELSE IF filename \in DOMAIN dir.meta /\ dir.meta[filename] = TruncatedText THEN "raise"
    ELSE LET metadata == IF filename \in DOMAIN dir.meta
                         THEN JsonLoads(dir.meta[filename]) ELSE JDict(<<>>)
             actual_hash == Sha256Hex(dir.chunk[filename])
             hash_match == /\ HasKey(metadata, "sha256")
                           /\ actual_hash = Item(metadata, "sha256")[2]
             decompression_success == dir.chunk[filename].magic = "gzip"
         IN IF hash_match /\ decompression_success THEN "PASS"
            ELSE IF decompression_success THEN "PARTIAL"
            ELSE "FAIL"

NoValidator == [op |-> "", filename |-> NoFilename, chunk_data |-> JNull, result |-> ""]

\* the names of the files of chunks_dir, and one that was never saved
NeverSaved == <<"eth_blocks", 0, 0, 0, ".json.gz">>
Filenames == DOMAIN chunks_dir.chunk \cup DOMAIN chunks_dir.meta \cup {NeverSaved}

\* a call of BlockChunker.verify_chunk
VerifyChunkCall ==
    /\ \E filename \in Filenames :
         validator' = [NoValidator EXCEPT !.op = "verify_chunk", !.filename = filename,
                                          !.result = VerifyChunk(chunks_dir, filename)]
    /\ UNCHANGED <<db, file, inst, pc, loc, log, ev, task, chunks_dir, chunker>>

\* a call of ChunkValidator.validate_compression_integrity
ValidateCompressionIntegrityCall ==
    /\ \E filename \in Filenames :
         validator' = [NoValidator EXCEPT
                         !.op = "validate_compression_integrity", !.filename = filename,
                         !.result = ValidateCompressionIntegrity(chunks_dir, filename)]
    /\ UNCHANGED <<db, file, inst, pc, loc, log, ev, task, chunks_dir, chunker>>

\* a call of BlockChunker.compress_chunk on chunker.chunk_data
CompressChunkCall ==
    /\ chunker.pc = "idle"
    /\ chunker.chunk_data # JNull
    /\ LET c == CompressChunk(chunker.chunk_data, chunker.now)
       IN chunker' = [chunker EXCEPT !.pc = "compressed", !.compressed = c.compressed,
                                     !.metadata = c.metadata]
    /\ UNCHANGED <<db, file, inst, pc, loc, log, ev, task, chunks_dir, validator>>

\* ------------------------------------ ChunkValidator.validate_block_sequence
\* the comparison of test_chunks.py:125 with <= for <
TimestampNotAfter(prev_time, curr_time) == curr_time <= prev_time

\* test_chunks.py:125  if curr_time < prev_time
TimestampOutOfOrder(prev_time, curr_time) == curr_time < prev_time

\* test_chunks.py:110-137: the issues, in the order the code appends them
SequenceIssues(chunk_data) ==
    LET blocks == Get(chunk_data, "blocks", JList(<<>>))[2]
        num(i) == Get(blocks[i], "number", JInt(0))[2]
        time(i) == Get(blocks[i], "timestamp", JInt(0))[2]
        later == [i \in 1..(Len(blocks) - 1) |-> i + 1]
        gaps == SelectSeq(later, LAMBDA i : num(i) # num(i - 1) + 1)
        unordered == SelectSeq(later, LAMBDA i : TimestampOutOfOrder(time(i - 1), time(i)))
        actual_start == num(1)
        actual_end == num(Len(blocks))
        expected_start == Get(chunk_data, "start_block", JInt(0))[2]
        expected_end == Get(chunk_data, "end_block", JInt(0))[2]
    IN [k \in DOMAIN gaps |-> <<"Block sequence gap", num(gaps[k] - 1), num(gaps[k])>>]
       \o [k \in DOMAIN unordered |->
             <<"Timestamp out of order", time(unordered[k] - 1), time(unordered[k])>>]
       \o (IF actual_start # expected_start
           THEN <<<<"Start block mismatch", expected_start, actual_start>>>> ELSE <<>>)
       \o (IF actual_end # expected_end
           THEN <<<<"End block mismatch", expected_end, actual_end>>>> ELSE <<>>)

\* test_chunks.py:97-150: the ValidationResult
ValidateBlockSequence(chunk_data) ==
    IF Get(chunk_data, "blocks", JList(<<>>))[2] = <<>> THEN "ERROR"
    ELSE IF SequenceIssues(chunk_data) = <<>> THEN "PASS"
    ELSE "FAIL"

\* a call of ChunkValidator.validate_block_sequence on validator.chunk_data
ValidateBlockSequenceCall ==
    /\ validator.op = ""
    /\ validator.chunk_data # JNull
    /\ validator' = [validator EXCEPT !.op = "validate_block_sequence",
                                      !.result = ValidateBlockSequence(validator.chunk_data)]
    /\ UNCHANGED <<db, file, inst, pc, loc, log, ev, task, chunks_dir, chunker>>

\* the chunks the two pure operations are applied to: up to MaxBlocks blocks
\* with numbers in 1..MaxBlocks and timestamps that repeat, rise or fall
MaxBlocks == 3
Timestamps == {5, 7}
InputBlock(n, t) ==
    JDict(<< <<"number", JInt(n)>>, <<"timestamp", JInt(t)>>,
             <<"transactions", JList(<< JDict(<< <<"to", JNull>>, <<"value", JStr("0")>> >>) >>)>> >>)
InputBlocks == {InputBlock(n, t) : n \in 1..MaxBlocks, t \in Timestamps}
InputBlockLists == UNION {[1..k -> InputBlocks] : k \in 0..MaxBlocks}
InputChunks ==
    { JDict(<< <<"version", JStr("1.0")>>, <<"start_block", JInt(s)>>,
               <<"end_block", JInt(e)>>, <<"blocks", JList(blocks)>> >>) :
        s \in {1, 2}, e \in {MaxBlocks - 1, MaxBlocks}, blocks \in InputBlockLists }

\* ------------------------------------------------------- specification
Init ==
    /\ db = NewChunk
    /\ file = AbsentFile
    /\ inst = [w \in Workers |-> NewChunk]
    /\ pc = [w \in Workers |-> "idle"]
    /\ loc = [w \in Workers |-> NoLocals]
    /\ log = [w \in Workers |-> NoLog]
    /\ ev = NoEvent
    /\ task = NoTask
    /\ chunks_dir = EmptyDir
    /\ chunker = NoChunker
    /\ validator = NoValidator

\* the collectors
Collect ==
    \/ CollectChunkDataCommand
    \/ ProcessChunkTask
    \/ ProcessChunkTaskNoConnection
    \/ BackfillChunk

\* a step of worker w's repair_missing_blocks call
Repair(w) ==
    \/ RepairBegin(w)
    \/ RepairNotConnected(w)
    \/ RepairFetch(w)
    \/ RepairOpen(w)
    \/ RepairDump(w)
    \/ RepairDumpFails(w)
    \/ RepairCrash(w)

\* repair invocations that do not overlap: one caller
Next ==
    \/ Collect
    \/ Repair(1)

Spec == Init /\ [][Next]_vars

\* a step of worker w's call when neither the write nor the process fails
RepairRun(w) ==
    \/ RepairBegin(w)
    \/ RepairNotConnected(w)
    \/ RepairLoadFails(w)
    \/ RepairFetch(w)
    \/ RepairOpen(w)
    \/ RepairDump(w)

\* Two callers whose repair invocations may overlap, on files the
\* collect_chunk_data command wrote. The workers are interchangeable, so the
\* second starts only while the first is running.
NextConcurrent ==
    \/ CollectChunkDataCommand
    \/ RepairRun(1)
    \/ pc[1] # "idle" /\ RepairRun(2)

SpecConcurrent == Init /\ [][NextConcurrent]_vars

\* analyze_missing_blocks and validate_chunk_task as functions of the file:
\* any ascending block list over the range and its neighbours, a file that
\* cannot be read, no file
FilesOver(S) == {OkFile(BlocksOf(SetToSortedSeq(T), 0), FALSE) : T \in SUBSET S}

\* block lists that are not ascending or hold a number twice: a file's list
\* reversed, and with its first record repeated at the end
Reverse(s) == [i \in DOMAIN s |-> s[Len(s) + 1 - i]]

IrregularFilesOver(S) ==
    {OkFile(Reverse(f.blocks), FALSE) : f \in FilesOver(S)}
      \cup {OkFile(Append(f.blocks, f.blocks[1]), FALSE) : f \in FilesOver(S) \ {OkFile(<<>>, FALSE)}}

\* the values of end_block: the range's own, and two that lie below start_block
EndBlocks == {EndBlock, StartBlock - 1, StartBlock - 2}

InitAnalyze ==
    /\ db \in {[NewChunk EXCEPT !.file_path = ChunkPath, !.end_block = e] : e \in EndBlocks}
    /\ file \in FilesOver(Universe) \cup IrregularFilesOver(Universe)
                  \cup {PartialFile, AbsentFile}
    /\ inst = [w \in Workers |-> NewChunk]
    /\ pc = [w \in Workers |-> "idle"]
    /\ loc = [w \in Workers |-> NoLocals]
    /\ log = [w \in Workers |-> NoLog]
    /\ ev = NoEvent
    /\ task = NoTask
    /\ chunks_dir = EmptyDir
    /\ chunker = NoChunker
    /\ validator = NoValidator

NextAnalyze ==
    \/ AnalyzeChunk
    \/ ValidateChunkTask
    \/ ValidateExistingChunks

SpecAnalyze == InitAnalyze /\ [][NextAnalyze]_vars

\* Repeated repair of one chunk: the collect_chunk_data command writes the
\* file once, process_chunk_task may fail to connect, and repair_missing_blocks
\* is invoked again and again with neither a write error nor a crash.
RepairFetchAll(w) == RepairFetchOk(w, SeqToSet(Batch(loc[w].missing)))

NextLive ==
    \/ db.status = "creating" /\ CollectChunkDataCommand
    \/ db.status # "failed" /\ ProcessChunkTaskNoConnection
    \/ RepairBegin(1)
    \/ RepairNotConnected(1)
    \/ RepairFetch(1)
    \/ RepairOpen(1)
    \/ RepairDump(1)

\* the caller keeps invoking repair, a call that began runs on to its return,
\* and the RPC source answers every fetch of a batch again and again
FairLive ==
    /\ WF_vars(RepairBegin(1))
    /\ WF_vars(RepairOpen(1))
    /\ WF_vars(RepairDump(1))
    /\ SF_vars(RepairFetchAll(1))

SpecLive == Init /\ [][NextLive]_vars /\ FairLive

\* Repeated repair with the RPC source connected at every attempt; single
\* fetches may fail.
NextConnected ==
    \/ db.status = "creating" /\ CollectChunkDataCommand
    \/ RepairBegin(1)
    \/ RepairFetch(1)
    \/ RepairOpen(1)
    \/ RepairDump(1)

\* a fetch step in which get_block(n) is called and succeeds
RepairFetchGets(w, n) ==
    \E ok \in FetchOutcomes(Batch(loc[w].missing)) : n \in ok /\ RepairFetchOk(w, ok)

\* the caller keeps invoking repair, every call runs on to its return, and
\* the fetch of the range's highest block succeeds again and again whenever
\* it is attempted
FairConnected ==
    /\ WF_vars(RepairBegin(1))
    /\ WF_vars(RepairFetch(1))
    /\ WF_vars(RepairOpen(1))
    /\ WF_vars(RepairDump(1))
    /\ SF_vars(RepairFetchGets(1, EndBlock))

SpecConnected == Init /\ [][NextConnected]_vars /\ FairConnected

\* one enqueue of process_chunk_task and its runs
NextTask ==
    \/ ProcessChunkTaskDelay
    \/ ProcessChunkTaskRun
    \/ ProcessChunkTaskRunNoConnection
    \/ ProcessChunkTaskRunWriteFails

SpecTask == Init /\ [][NextTask]_vars

\* create_real_chunk.py run again and again on one range, a process that may
\* die, and the verifiers
NextChunker ==
    \/ CreateRealChunk
    \/ SaveChunkOpen
    \/ SaveChunkWrite
    \/ SaveMetaOpen
    \/ SaveMetaWrite
    \/ SaveChunkRaises
    \/ ChunkerCrash
    \/ VerifyChunkCall
    \/ ValidateCompressionIntegrityCall

SpecChunker == Init /\ [][NextChunker]_vars

\* the chunk_size arguments: None or 0, sizes that divide the range and
\* sizes that do not, a size larger than the range, negative sizes
ChunkSizes == {0, 2, 3, 4, SpanLen + 1, 0 - 1, 0 - 2}

\* one call of process_block_range(start, end, chunk_size) with start <= end
\* on an empty chunks_dir
ProcessBlockRangeCall ==
    /\ chunker.now = 0
    /\ \E end_block \in {StartBlock, EndBlock}, chunk_size \in ChunkSizes :
         ProcessBlockRange(StartBlock, end_block, chunk_size)

NextRange ==
    \/ ProcessBlockRangeCall
    \/ ProcessBlockRangeCreate
    \/ ProcessBlockRangeReturn
    \/ SaveChunkOpen
    \/ SaveChunkWrite
    \/ SaveMetaOpen
    \/ SaveMetaWrite
    \/ SaveChunkRaises

SpecRange == Init /\ [][NextRange]_vars

\* compress_chunk and validate_block_sequence applied to one chunk
InitInputs ==
    /\ db = NewChunk
    /\ file = AbsentFile
    /\ inst = [w \in Workers |-> NewChunk]
    /\ pc = [w \in Workers |-> "idle"]
    /\ loc = [w \in Workers |-> NoLocals]
    /\ log = [w \in Workers |-> NoLog]
    /\ ev = NoEvent
    /\ task = NoTask
    /\ chunks_dir = EmptyDir
    /\ \E c \in InputChunks :
         /\ chunker = [NoChunker EXCEPT !.chunk_data = c]
         /\ validator = [NoValidator EXCEPT !.chunk_data = c]

NextInputs ==
    \/ CompressChunkCall
    \/ ValidateBlockSequenceCall

SpecInputs == InitInputs /\ [][NextInputs]_vars

\* ================================================================ claims
\* the numbers of the chunk's range the file lacks, and those it holds
Absent == MissingIn(file.blocks, db.start_block, db.end_block)
Present == Numbers(file.blocks) \cap (db.start_block..db.end_block)
Span == db.end_block - db.start_block + 1

\* the step just taken ended a repair call with a log
RepairReturned == ev.op = "repair_return" /\ ev.ret = "log"
\* ... a repair call that got as far as writing the merged file
RepairWrote == RepairReturned /\ ev.log.completed /\ ev.loc.new_blocks # <<>>
\* a collector has just written the file
CollectorWrote == ev.op \in {"collect_command", "process_chunk_task", "backfill"}

\* C1: no two executions of repair_missing_blocks are between taking the
\* 'repairing' status and their final save at the same time.
C1_NoOverlappingRepairs ==
    Cardinality({w \in Workers : pc[w] # "idle"}) <= 1

\* C2: when a repair attempt has returned its log, the persisted status is
\* complete, incomplete or failed, never 'repairing'.
C2_ReturnedStatusIsTerminal ==
    RepairReturned => db.status \in {"complete", "incomplete", "failed"}

\* C3: after analyze_missing_blocks on a readable file, the missing numbers
\* and the file's numbers inside the range add up to the span, and
\* completeness_percentage is 100 exactly when nothing is missing.
C3_CompletenessInvariant ==
    (ev.op = "analyze" /\ Readable(file) /\ db.start_block <= db.end_block) =>
        /\ Len(db.missing_blocks) + Cardinality(Present) = Span
        /\ (db.completeness_percentage = Hundred) <=> (db.missing_blocks = <<>>)

\* C4: after an operation that wrote the chunk file, the status is 'complete'
\* only if the file lacks no number of the range, and 'incomplete' if it
\* lacks one.
C4_StatusMatchesFile ==
    ((CollectorWrote \/ RepairWrote) /\ Readable(file)) =>
        /\ (db.status = "complete" => Absent = <<>>)
        /\ (Absent # <<>> => db.status = "incomplete")

\* C5: after every chunk file write, missing_blocks is exactly the numbers of
\* the range the written file lacks and completeness_percentage is
\* 100 * present / span.
C5_RegistryReflectsFile ==
    ((CollectorWrote \/ RepairWrote) /\ Readable(file)) =>
        /\ db.missing_blocks = Absent
        /\ db.completeness_percentage = Pct(Cardinality(Present), Span)

\* C6: after a repair attempt that rewrote the file, file_hash is the sha256
\* of the file's bytes and file_size_bytes and compression_ratio are those of
\* the new file.
C6_RepairUpdatesFileFields ==
    (RepairWrote /\ Readable(file)) =>
        /\ db.file_hash = Sha256(file)
        /\ db.file_size_bytes = SizeOf(file)
        /\ db.compression_ratio = RatioOf(file)

\* C7: once a repair attempt that fetched has ended, by returning or by the
\* process dying, the file holds the whole block list it had when the attempt
\* loaded it or the whole merged list.
C7_WriteIsAllOrNothing ==
    (ev.op \in {"repair_return", "repair_crash"} /\ ev.loc.fetched # <<>>) =>
        /\ Readable(file)
        /\ file.blocks \in {ev.loc.pre.blocks, ev.loc.merged}

\* C8: the log created at the start of an attempt has blocks_attempted =
\* min(len(missing_blocks), 5) and missing_blocks_before = the missing list.
C8_BlocksAttemptedIsBatchSize ==
    ev.op = "repair_begin" =>
        /\ ev.log.blocks_attempted = Min(Len(db.missing_blocks), RepairBatchLimit)
        /\ ev.log.missing_blocks_before = db.missing_blocks

\* C9: an attempt fetches only the five lowest missing numbers, ascending;
\* when six are missing and the five fetches succeed, the sixth is still
\* missing afterwards and is in the batch the next call fetches.
C9_BatchOfFive ==
    /\ (ev.op \in {"repair_fetched", "repair_return"} /\ ev.loc.fetched # <<>>) =>
          /\ ev.loc.fetched = Take(ev.loc.missing, RepairBatchLimit)
          /\ IsAscending(ev.loc.fetched)
    /\ (RepairReturned /\ Len(ev.loc.missing) = RepairBatchLimit + 1
            /\ Len(ev.loc.new_blocks) = RepairBatchLimit) =>
          LET sixth == ev.loc.missing[RepairBatchLimit + 1]
          IN /\ sixth \in SeqToSet(db.missing_blocks)
             /\ sixth \in SeqToSet(Batch(Analyze(db, file).missing))

\* C10: in an attempt whose write does not fail, with a fetch that failed,
\* every number fetched successfully is in the file afterwards, every number
\* whose fetch failed is still in missing_blocks, and blocks_repaired is the
\* number of successful fetches.
C10_FetchErrorIsNotFatal ==
    (RepairReturned /\ ev.loc.fetched # <<>>
        /\ Len(ev.loc.new_blocks) < Len(ev.loc.fetched)
        /\ ev.log.error_message # "write error") =>
        /\ Numbers(ev.loc.new_blocks) \subseteq Numbers(file.blocks)
        /\ (SeqToSet(ev.loc.fetched) \ Numbers(ev.loc.new_blocks))
               \subseteq SeqToSet(db.missing_blocks)
        /\ ev.log.blocks_repaired = Len(ev.loc.new_blocks)

\* C11: a repair attempt that finds the RPC source not connected fetches
\* nothing, leaves the chunk file as it was, returns its log with a non-empty
\* error_message and persists the status 'failed'.
C11_NotConnectedFails ==
    [][RepairNotConnected(1) =>
          /\ file' = file
          /\ ev'.loc.fetched = <<>> /\ ev'.loc.new_blocks = <<>>
          /\ ev'.op = "repair_return" /\ ev'.ret = "log"
          /\ ev'.log.error_message # ""
          /\ ~ev'.log.completed
          /\ db'.status = "failed"]_vars

C11_Witness ==
    /\ RepairReturned
    /\ ev.log.error_message = "Cannot connect to RPC"
    /\ ev.loc.fetched = <<>>
    /\ db.status = "failed"
    /\ Readable(file) /\ Absent # <<>> /\ file.blocks # <<>>

\* C12: repair_missing_blocks on a chunk whose file holds every number of
\* the range ends at once: no fetch, the file is not rewritten, and the
\* persisted status is the one the chunk had (it never becomes 'repairing').
C12_CompleteFileIsNoOp ==
    [][(RepairBegin(1) /\ db.file_path # "" /\ Readable(file) /\ Absent = <<>>) =>
          /\ file' = file
          /\ db'.status = db.status
          /\ pc'[1] = "idle" /\ ev'.op = "repair_return"
          /\ ev'.loc.fetched = <<>>]_vars

C12_Witness ==
    /\ ev.op = "repair_return" /\ ev.ret = "None"
    /\ db.file_path # "" /\ Readable(file) /\ Absent = <<>>
    /\ Len(file.blocks) = Span
    /\ db.status \in {"complete", "failed"}

\* C13: every invocation of repair_missing_blocks that returns, returns a
\* ChunkRepairLog row, also when nothing is missing or the file cannot be
\* read; it never returns no log.
C13_AlwaysReturnsLog ==
    ev.op = "repair_return" => (ev.ret = "log" /\ ev.log.exists)

\* the steps of a repair_missing_blocks call
RepairOps == {"repair_begin", "repair_fetched", "repair_open", "repair_return", "repair_crash"}

\* C14: across consecutive repair invocations on one chunk, with no other
\* writer of the file in between, the length of the persisted missing_blocks
\* never grows: no step of a call that follows a step of a repair call
\* lengthens it, whatever the fetch outcomes and also when the attempt fails.
C14_MissingNeverGrows ==
    [][(ev.op \in RepairOps /\ ev'.op \in RepairOps) =>
          Len(db'.missing_blocks) <= Len(db.missing_blocks)]_vars

\* a second consecutive attempt has just repaired what the first left
C14_Witness ==
    /\ RepairWrote
    /\ db.missing_blocks = <<>>
    /\ Len(ev.log.missing_blocks_before) = 1
    /\ \E i \in DOMAIN file.blocks :
          /\ file.blocks[i].by = 1
          /\ file.blocks[i].number \notin Numbers(ev.loc.new_blocks)

\* C15: with the RPC source answering, repeated repair of a chunk whose file
\* is readable and carries a metadata envelope, from status incomplete or
\* failed, leads to missing_blocks empty and status 'complete'.
C15_RepairEventuallyCompletes ==
    (Quiet /\ Readable(file) /\ file.has_metadata
        /\ db.status \in {"incomplete", "failed"})
      ~> (db.missing_blocks = <<>> /\ db.status = "complete")

\* C16: after every file write by repair_missing_blocks, under any
\* interleaving of repair attempts, the file's block list is ascending by
\* number with no number twice, and every record the attempt loaded is still
\* in it (none replaced by a fetched record).
C16_SortedNoDuplicates ==
    (RepairWrote /\ Readable(file)) =>
        /\ IsAscending([i \in DOMAIN file.blocks |-> file.blocks[i].number])
        /\ SeqToSet(ev.loc.pre.blocks) \subseteq SeqToSet(file.blocks)

\* C17: analyze_missing_blocks on a chunk with end_block < start_block fails
\* with an invalid-range error: it returns no missing list and stores no
\* completeness value.
C17_InvalidRangeFails ==
    (ev.op = "analyze" /\ db.end_block < db.start_block) =>
        /\ ev.ret = "InvalidRangeError"
        /\ db.completeness_percentage = NewChunk.completeness_percentage
        /\ db.total_blocks = NewChunk.total_blocks

\* C18: when the chunk file cannot be read, repair_missing_blocks (and the
\* analyze_missing_blocks it calls) surfaces the failure: the call does not
\* return as it does for a chunk with nothing missing.
C18_UnreadableFileSurfaces ==
    (ev.op = "repair_return" /\ db.file_path # "" /\ ~Readable(file)) =>
        (ev.ret = "log" /\ ev.log.error_message # "")

\* C19: the log of every repair attempt that got past the connectivity check
\* has completed_at set, blocks_repaired = the number of fetched blocks that
\* are merged into the file, and missing_blocks_after = missing_blocks_before
\* without exactly those numbers, so that
\* len(before) - len(after) = blocks_repaired <= blocks_attempted.
C19_LogAccounting ==
    (RepairReturned /\ ev.loc.fetched # <<>>) =>
        LET before == SeqToSet(ev.log.missing_blocks_before)
            after == SeqToSet(ev.log.missing_blocks_after)
            mergedNumbers == IF Readable(file)
                             THEN (Numbers(ev.loc.new_blocks) \cap Numbers(file.blocks))
                                      \ Numbers(ev.loc.pre.blocks)
                             ELSE {}
        IN /\ ev.log.completed
           /\ ev.log.blocks_repaired = Cardinality(mergedNumbers)
           /\ after = before \ mergedNumbers
           /\ Len(ev.log.missing_blocks_before) - Len(ev.log.missing_blocks_after)
                  = ev.log.blocks_repaired
           /\ ev.log.blocks_repaired <= ev.log.blocks_attempted

\* C20: validate_chunk_task stores completeness_percentage =
\* 100 * (span - len(missing_blocks)) / span, the value analyze_missing_blocks
\* stores for the same file, and the same missing list.
C20_ValidateAgreesWithAnalyze ==
    (ev.op = "validate" /\ ev.ret = "result" /\ Span > 0) =>
        /\ db.missing_blocks = Absent
        /\ db.completeness_percentage = Pct(Span - Len(db.missing_blocks), Span)
        /\ db.completeness_percentage = Analyze(db, file).inst.completeness_percentage

\* C27: a repair attempt on a file a collector wrote without a top-level
\* 'metadata' object that fetches at least one block, and whose write does
\* not fail, writes the merged block list and ends with status complete or
\* incomplete.
C27_CollectorFilesAreRepairable ==
    (RepairReturned /\ ev.loc.new_blocks # <<>> /\ ~ev.loc.pre.has_metadata
        /\ ev.log.error_message # "write error") =>
        /\ Readable(file) /\ file.blocks = ev.loc.merged
        /\ db.status \in {"complete", "incomplete"}

\* C26: when an execution of repair_missing_blocks opens the chunk file for
\* rewriting, every block the file holds at that moment is in the list the
\* execution is about to write (no block another execution wrote is lost),
\* and when no execution is running after a repair wrote the file, the
\* persisted missing_blocks is what the file lacks.
C26_NoLostUpdate ==
    [][/\ (ev'.op = "repair_open" /\ Readable(file)) =>
              Numbers(file.blocks) \subseteq Numbers(loc'[ev'.w].merged)
       /\ (ev'.op = "repair_return" /\ ev'.log.completed /\ Quiet') =>
              (Readable(file') /\ db'.missing_blocks =
                  MissingIn(file'.blocks, db'.start_block, db'.end_block))]_vars

\* C25: under repeated repair with the RPC source connected, every missing
\* block number is eventually passed to a fetch attempt, and the highest one,
\* whose fetch can succeed, is eventually in the file, also when the five
\* lower missing blocks fail on every attempt.
C25_EveryMissingBlockIsAttempted ==
    /\ \A n \in StartBlock..EndBlock :
          (Readable(file) /\ n \in SeqToSet(Absent))
            ~> (n \in SeqToSet(ev.loc.fetched) \/ n \in Numbers(file.blocks))
    /\ (Readable(file) /\ EndBlock \in SeqToSet(Absent))
            ~> (EndBlock \in Numbers(file.blocks))

\* C30: for every block list and every range with start_block <= end_block,
\* analyze_missing_blocks, find_missing_blocks_in_range and backfill's
\* find_missing_blocks return the same list: the numbers of the range that
\* are not in the block list, ascending, each once, and the whole range for
\* an empty list.
C30_MissingComputationsAgree ==
    (/\ ev.op \in {"analyze", "validate", "validate_existing"}
     /\ ev.ret \in {"list", "result"}
     /\ db.file_path # "" /\ Readable(file)
     /\ db.start_block <= db.end_block) =>
        /\ ev.loc.missing = MissingIn(file.blocks, db.start_block, db.end_block)
        /\ ev.loc.missing = FindMissingBlocksInRange(file.blocks, db.start_block, db.end_block)
        /\ ev.loc.missing = FindMissingBlocks(file.blocks, db.start_block, db.end_block)
        /\ IsAscending(ev.loc.missing)
        /\ SeqToSet(ev.loc.missing) = (db.start_block..db.end_block) \ Numbers(file.blocks)
        /\ (file.blocks = <<>> => ev.loc.missing = RangeSeq(db.start_block, db.end_block))

\* validate_chunk_task has computed a non-empty missing list from a block
\* list that is not ascending
C30_Witness ==
    /\ ev.op = "validate" /\ ev.ret = "result"
    /\ db.start_block <= db.end_block
    /\ ev.loc.missing # <<>>
    /\ Len(file.blocks) > 2
    /\ file.blocks[1].number > file.blocks[2].number

\* C29: one enqueue of process_chunk_task runs at most 1 + 3 = 4 times; a
\* failed run marks the chunk failed and, while retries < 3, schedules a retry
\* after 60 * 2^retries seconds, the fourth failure raises without a retry;
\* once the task has stopped the status is complete, incomplete or failed,
\* and complete only if every block of the range was collected.
C29_RetriesAreBounded ==
    [][ /\ task'.runs <= 4
        /\ (task'.runs = task.runs + 1 /\ ev'.ret # "result") =>
              /\ db'.status = "failed"
              /\ IF task.retries < 3
                 THEN /\ task'.state = "RETRY"
                      /\ task'.retries = task.retries + 1
                      /\ task'.countdown = 60 * (2 ^ task.retries)
                 ELSE /\ task'.state = "FAILURE"
                      /\ task'.retries = task.retries
        /\ (task'.state \in {"SUCCESS", "FAILURE"}) =>
              /\ db'.status \in {"complete", "incomplete", "failed"}
              /\ (db'.status = "complete") =>
                    /\ task'.start_block <= task'.end_block
                    /\ (task'.start_block..task'.end_block) \subseteq task'.collected
      ]_vars

\* C29 witness: the fourth run failed and the task stopped
C29_Witness ==
    /\ task.state = "FAILURE"
    /\ task.runs = 4
    /\ task.retries = 3
    /\ task.countdown = 240
    /\ db.status = "failed"

\* the digest a sidecar stores
StoredHash(dir, filename) == Item(JsonLoads(dir.meta[filename]), "sha256")[2]
\* the sidecars that can be read
Sidecars(dir) == {fn \in DOMAIN dir.meta : dir.meta[fn] # TruncatedText}

\* C21: a crash at any point of save_chunk (or of a repair write) leaves no
\* sidecar and no registry record whose stored hash differs from the sha256
\* of the bytes on disk, also when an existing chunk file of the same name is
\* overwritten.
C21_CrashLeavesMatchingHash ==
    /\ chunker.crashed =>
          \A fn \in Sidecars(chunks_dir) :
             /\ fn \in DOMAIN chunks_dir.chunk
             /\ StoredHash(chunks_dir, fn) = Sha256Hex(chunks_dir.chunk[fn])
    /\ (ev.op = "repair_crash" /\ db.file_hash # NoHash) => db.file_hash = Sha256(file)

\* C22: after save_chunk completes, verify_chunk on the returned filename is
\* true and validate_compression_integrity on that file is PASS; verify_chunk
\* is false when the chunk file or the sidecar is absent or when the bytes of
\* the file are not those the sidecar's hash was taken of.
C22_SavedChunkVerifies ==
    /\ chunker.returned # NoFilename =>
          /\ VerifyChunk(chunks_dir, chunker.returned) = "True"
          /\ ValidateCompressionIntegrity(chunks_dir, chunker.returned) = "PASS"
    /\ \A fn \in Filenames :
          /\ (fn \notin DOMAIN chunks_dir.chunk \/ fn \notin DOMAIN chunks_dir.meta) =>
                VerifyChunk(chunks_dir, fn) = "False"
          /\ (/\ fn \in DOMAIN chunks_dir.chunk
              /\ fn \in Sidecars(chunks_dir)
              /\ StoredHash(chunks_dir, fn)[2] # chunks_dir.chunk[fn]) =>
                VerifyChunk(chunks_dir, fn) = "False"
    /\ (validator.op = "verify_chunk" /\ validator.result = "True") =>
          /\ validator.filename \in DOMAIN chunks_dir.chunk
          /\ validator.filename \in DOMAIN chunks_dir.meta

\* C22 witness: verify_chunk was called on the filename returned by a
\* save_chunk that overwrote an earlier chunk file of that name
C22_Witness ==
    /\ chunker.returned # NoFilename
    /\ validator.op = "verify_chunk"
    /\ validator.filename = chunker.returned
    /\ validator.result = "True"
    /\ chunks_dir.chunk[chunker.returned].mtime > 1

\* C23: decompressing and parsing the bytes compress_chunk returns gives a
\* chunk equal to the input (start_block, end_block, the block list in order,
\* every field), and the returned sha256 is the hash of those bytes.
C23_CompressRoundTrips ==
    chunker.pc = "compressed" =>
        LET restored == JsonLoads(GzipDecompress(chunker.compressed))
        IN /\ restored = chunker.chunk_data
           /\ Item(restored, "start_block") = Item(chunker.chunk_data, "start_block")
           /\ Item(restored, "end_block") = Item(chunker.chunk_data, "end_block")
           /\ Item(restored, "blocks") = Item(chunker.chunk_data, "blocks")
           /\ Item(chunker.metadata, "sha256") = JStr(Sha256Hex(chunker.compressed))
           /\ chunker.compressed.magic = "gzip"

\* C23 witness: a chunk of several blocks, one number above nine and a null
\* field, was compressed
C23_Witness ==
    /\ chunker.pc = "compressed"
    /\ Len(Item(chunker.chunk_data, "blocks")[2]) = MaxBlocks
    /\ Item(chunker.metadata, "original_size")[2] > 9
    /\ \E i \in DOMAIN GzipDecompress(chunker.compressed) :
          GzipDecompress(chunker.compressed)[i][1] = "literal"

\* the numbers and timestamps of the blocks of validator.chunk_data
InputNumbers ==
    LET blocks == Item(validator.chunk_data, "blocks")[2]
    IN [i \in DOMAIN blocks |-> Item(blocks[i], "number")[2]]
InputTimes ==
    LET blocks == Item(validator.chunk_data, "blocks")[2]
    IN [i \in DOMAIN blocks |-> Item(blocks[i], "timestamp")[2]]
InSequence ==
    /\ InputNumbers # <<>>
    /\ \A i \in 2..Len(InputNumbers) : InputNumbers[i] = InputNumbers[i - 1] + 1
    /\ \A i \in 2..Len(InputTimes) : InputTimes[i] >= InputTimes[i - 1]
    /\ InputNumbers[1] = Item(validator.chunk_data, "start_block")[2]
    /\ InputNumbers[Len(InputNumbers)] = Item(validator.chunk_data, "end_block")[2]

\* C24: validate_block_sequence returns PASS exactly when the list is not
\* empty, each number is the previous plus 1, timestamps never decrease, the
\* first number is start_block and the last is end_block; FAIL when one of
\* these is violated, ERROR when the list is empty.
C24_SequenceVerdict ==
    validator.op = "validate_block_sequence" =>
        /\ validator.result = "PASS" <=> InSequence
        /\ InputNumbers = <<>> => validator.result = "ERROR"
        /\ (InputNumbers # <<>> /\ ~InSequence) => validator.result = "FAIL"

\* C24 witness: a list of consecutive numbers with two equal timestamps passed
C24_Witness ==
    /\ validator.op = "validate_block_sequence"
    /\ validator.result = "PASS"
    /\ Len(InputTimes) > 1
    /\ InputTimes[1] = InputTimes[2]

\* the calls of create_chunk so far
Calls == chunker.calls

\* C28: process_block_range(start, end, chunk_size) with start <= end
\* terminates for every chunk_size; its create_chunk calls are on ranges that
\* are contiguous, disjoint, of at most chunk_size blocks each and cover
\* [start, end]; a failed range is skipped and the later ones are processed;
\* the returned list holds one filename per saved range.
C28_RangesPartition ==
    chunker.caller = "process_block_range" =>
        /\ chunker.current >= chunker.start_block
        /\ \A i \in DOMAIN Calls :
              /\ Calls[i][1] <= Calls[i][2]
              /\ Calls[i][2] - Calls[i][1] + 1 <= chunker.chunk_size
              /\ Calls[i][2] <= chunker.end_block
              /\ Calls[i][1] = IF i = 1 THEN chunker.start_block ELSE Calls[i - 1][2] + 1
        /\ (chunker.pc = "idle") =>
              /\ Calls # <<>>
              /\ Calls[Len(Calls)][2] = chunker.end_block
              /\ Len(chunker.saved_chunks) = Cardinality(Sidecars(chunks_dir))
              /\ \A k \in DOMAIN chunker.saved_chunks :
                    /\ chunker.saved_chunks[k] \in Sidecars(chunks_dir)
                    /\ \E i \in DOMAIN Calls :
                          /\ chunker.saved_chunks[k][2] = Calls[i][1]
                          /\ chunker.saved_chunks[k][3] = Calls[i][2]

====
